---------------------------- MODULE Spec2Model ----------------------------
(***************************************************************************)
(* Stateless quiz sessions (foodtech-quiz): signed session tokens, the     *)
(* quiz / wheel / scoring state machine of QuizController, and the         *)
(* redemption log written by UserWriter.                                   *)
(*                                                                         *)
(* Strings are sequences of byte values (ASCII codes); byte strings are    *)
(* sequences of 0..255.  A BTreeMap is a function whose domain is the set  *)
(* of keys; its iteration order is the byte-wise lexicographic key order.  *)
(***************************************************************************)
EXTENDS Integers, Sequences, FiniteSets, TLC

\* ------------------------------------------------------------------------
\* Bounds of the model
\* ------------------------------------------------------------------------

\* number of distinct 16-byte ids OsRng may produce
NumIds == 2

\* the most answers a token issued under an earlier catalog holds for a quiz
\* that the catalog no longer has
StaleQuizLen == 2

\* the most quiz, wheel and stats requests made
MaxRequests == 3

\* the most checkout requests made
MaxCheckouts == 2

\* the most strings in the code list of one register call
MaxCodes == 2

\* ------------------------------------------------------------------------
\* Option / Result
\* ------------------------------------------------------------------------

None == [some |-> FALSE]

Some(v) == [some |-> TRUE, val |-> v]

Ok(v) == [ok |-> TRUE, val |-> v]

Err(e) == [ok |-> FALSE, err |-> e]

\* ------------------------------------------------------------------------
\* Strings
\* ------------------------------------------------------------------------

\* str::cmp / String's Ord: byte-wise lexicographic, a proper prefix first
RECURSIVE StrLess(_, _)
StrLess(a, b) ==
    IF b = << >> THEN FALSE
    ELSE IF a = << >> THEN TRUE
    ELSE IF a[1] # b[1] THEN a[1] < b[1]
    ELSE StrLess(Tail(a), Tail(b))

\* the keys of a BTreeMap / the elements of a BTreeSet in iteration order
RECURSIVE SortedKeys(_)
SortedKeys(S) ==
    IF S = {} THEN << >>
    ELSE LET k == CHOOSE x \in S : \A y \in S : x = y \/ StrLess(x, y)
         IN  <<k>> \o SortedKeys(S \ {k})

\* concatenation of a sequence of sequences
RECURSIVE Concat(_)
Concat(ss) == IF ss = << >> THEN << >> ELSE ss[1] \o Concat(Tail(ss))

\* sum of a sequence of numbers
RECURSIVE SumSeq(_)
SumSeq(s) == IF s = << >> THEN 0 ELSE s[1] + SumSeq(Tail(s))

Pow2(n) == 2 ^ n

\* ------------------------------------------------------------------------
\* base64, URL_SAFE_NO_PAD
\* ------------------------------------------------------------------------

\* the URL-safe alphabet: A-Z a-z 0-9 - _
Sym2Char(s) ==
    IF s < 26 THEN 65 + s
    ELSE IF s < 52 THEN 97 + (s - 26)
    ELSE IF s < 62 THEN 48 + (s - 52)
    ELSE IF s = 62 THEN 45
    ELSE 95

\* the value of a character, -1 for a character outside the alphabet
Char2Sym(c) ==
    IF c >= 65 /\ c <= 90 THEN c - 65
    ELSE IF c >= 97 /\ c <= 122 THEN c - 97 + 26
    ELSE IF c >= 48 /\ c <= 57 THEN c - 48 + 52
    ELSE IF c = 45 THEN 62
    ELSE IF c = 95 THEN 63
    ELSE -1

\* base64::encode_config(bytes, URL_SAFE_NO_PAD): 6 bits per character, most
\* significant first, the last character zero-filled, no '=' padding
Base64Encode(bytes) ==
    LET n == Len(bytes)
        L == (8 * n + 5) \div 6
        byte(j) == IF j <= n THEN bytes[j] ELSE 0
        sym(k) == LET bit == 6 * (k - 1)
                      j   == bit \div 8 + 1
                      o   == bit % 8
                      w   == byte(j) * 256 + byte(j + 1)
                  IN  (w \div Pow2(10 - o)) % 64
    IN  [k \in 1..L |-> Sym2Char(sym(k))]

\* whether decoding rejects non-zero bits after the last whole byte
\* (decode_allow_trailing_bits is false in URL_SAFE_NO_PAD)
StrictTrailingBits == TRUE

\* base64::decode_config(text, URL_SAFE_NO_PAD): an error on a character
\* outside the alphabet (padding included), on an impossible length, and on
\* non-zero trailing bits in the last character
Base64Decode(text) ==
    LET L == Len(text)
        syms == [k \in 1..L |-> Char2Sym(text[k])]
        n == (6 * L) \div 8
        sym(k) == IF k <= L THEN syms[k] ELSE 0
        byte(i) == LET bit == 8 * (i - 1)
                       k   == bit \div 6 + 1
                       o   == bit % 6
                       w   == sym(k) * 64 + sym(k + 1)
                   IN  (w \div Pow2(4 - o)) % 256
    IN  IF \E k \in 1..L : syms[k] = -1 THEN Err("InvalidByte")
        ELSE IF L % 4 = 1 THEN Err("InvalidLength")
        ELSE IF StrictTrailingBits /\ L % 4 = 2 /\ syms[L] % 16 # 0
             THEN Err("InvalidLastSymbol")
        ELSE IF StrictTrailingBits /\ L % 4 = 3 /\ syms[L] % 4 # 0
             THEN Err("InvalidLastSymbol")
        ELSE Ok([i \in 1..n |-> byte(i)])


\* ------------------------------------------------------------------------
\* bincode (fixed-width little-endian integers, u64 length prefixes)
\* ------------------------------------------------------------------------

\* a u64 in 8 little-endian bytes (the lengths written are below 2^24)
SerU64(n) == [i \in 1..8 |-> IF i <= 3 THEN (n \div (256 ^ (i - 1))) % 256 ELSE 0]

SerString(s) == SerU64(Len(s)) \o s

SerVecBool(v) == SerU64(Len(v)) \o [i \in 1..Len(v) |-> IF v[i] THEN 1 ELSE 0]

\* BTreeMap<String, Vec<bool>>: the entry count, then the entries in key order
SerAnswers(m) ==
    LET keys == SortedKeys(DOMAIN m)
    IN  SerU64(Len(keys))
        \o Concat([i \in 1..Len(keys) |-> SerString(keys[i]) \o SerVecBool(m[keys[i]])])

\* BTreeMap<String, u8>
SerWheels(m) ==
    LET keys == SortedKeys(DOMAIN m)
    IN  SerU64(Len(keys))
        \o Concat([i \in 1..Len(keys) |-> SerString(keys[i]) \o <<m[keys[i]]>>])

\* bincode::serialize(&UserState): UserId is a newtype over [u8; 16], written as
\* its 16 bytes without a length; then the two maps in field order
Serialize(us) == us.id \o SerAnswers(us.answers) \o SerWheels(us.wheels)

\* a parse step: the value read and the position after it
Parsed(v, p) == [ok |-> TRUE, val |-> v, pos |-> p]

\* a length of 2^24 or more exceeds any input: the read that follows it fails
DeU64(b, p) ==
    IF p + 7 > Len(b) THEN Err("UnexpectedEof")
    ELSE IF \E i \in 4..8 : b[p + i - 1] # 0 THEN Err("UnexpectedEof")
    ELSE Parsed(SumSeq([i \in 1..3 |-> b[p + i - 1] * (256 ^ (i - 1))]), p + 8)

\* the n bytes at position p, when the input holds them
DeBytes(b, p, n) ==
    IF p + n - 1 > Len(b) THEN Err("UnexpectedEof")
    ELSE Parsed(SubSeq(b, p, p + n - 1), p + n)

\* a String's content must be UTF-8; of the byte values, those below 128 are
DeUtf8(r) ==
    IF ~r.ok THEN r
    ELSE IF \E i \in 1..Len(r.val) : r.val[i] >= 128 THEN Err("InvalidUtf8")
    ELSE r

\* a bool is the byte 0 or the byte 1
DeBools(r) ==
    IF ~r.ok THEN r
    ELSE IF \E i \in 1..Len(r.val) : r.val[i] \notin {0, 1} THEN Err("InvalidBoolEncoding")
    ELSE Parsed([i \in 1..Len(r.val) |-> r.val[i] = 1], r.pos)

\* the content that follows a length n read before it
DeContent(b, n) == IF ~n.ok THEN n ELSE DeBytes(b, n.pos, n.val)

DeString(b, p) == DeUtf8(DeContent(b, DeU64(b, p)))

DeVecBool(b, p) == DeBools(DeContent(b, DeU64(b, p)))

DeU8(b, p) == IF p > Len(b) THEN Err("UnexpectedEof") ELSE Parsed(b[p], p + 1)

\* a map entry: the key k read, then the value v read after it
DeEntry(k, v) ==
    IF ~k.ok THEN k
    ELSE IF ~v.ok THEN v
    ELSE Parsed(k.val :> v.val, v.pos)

DeAnswerEntry(b, k) == DeEntry(k, IF k.ok THEN DeVecBool(b, k.pos) ELSE k)

DeWheelEntry(b, k) == DeEntry(k, IF k.ok THEN DeU8(b, k.pos) ELSE k)

\* n map entries from position p, inserted into acc (a repeated key overwrites)
RECURSIVE DeAnswerEntries(_, _, _, _)
DeAnswerNext(b, e, n, acc) ==
    IF ~e.ok THEN e ELSE DeAnswerEntries(b, e.pos, n - 1, e.val @@ acc)

DeAnswerEntries(b, p, n, acc) ==
    IF n = 0 THEN Parsed(acc, p)
    ELSE DeAnswerNext(b, DeAnswerEntry(b, DeString(b, p)), n, acc)

RECURSIVE DeWheelEntries(_, _, _, _)
DeWheelNext(b, e, n, acc) ==
    IF ~e.ok THEN e ELSE DeWheelEntries(b, e.pos, n - 1, e.val @@ acc)

DeWheelEntries(b, p, n, acc) ==
    IF n = 0 THEN Parsed(acc, p)
    ELSE DeWheelNext(b, DeWheelEntry(b, DeString(b, p)), n, acc)

\* a BTreeMap: the entry count n read, then that many entries
DeAnswers(b, n) == IF ~n.ok THEN n ELSE DeAnswerEntries(b, n.pos, n.val, << >>)

DeWheels(b, n) == IF ~n.ok THEN n ELSE DeWheelEntries(b, n.pos, n.val, << >>)

\* the wheels map w, read after the answers map a
DeUserState(b, a, w) ==
    IF ~a.ok THEN a
    ELSE IF ~w.ok THEN w
    ELSE Ok([id |-> SubSeq(b, 1, 16), answers |-> a.val, wheels |-> w.val])

DeAfterAnswers(b, a) ==
    DeUserState(b, a, IF a.ok THEN DeWheels(b, DeU64(b, a.pos)) ELSE a)

\* bincode::deserialize::<UserState>(bytes); bytes after the value are ignored
Deserialize(b) ==
    IF Len(b) < 16 THEN Err("UnexpectedEof")
    ELSE DeAfterAnswers(b, DeAnswers(b, DeU64(b, 17)))

\* ------------------------------------------------------------------------
\* HMAC (ring::hmac), as an ideal MAC: the tag is a collision-free function
\* of the key and the message, so only the holder of the key can produce
\* the tag of a message
\* ------------------------------------------------------------------------

hmac_sign(key, msg) == key \o msg

\* mutant: the tag is not checked
hmac_verify_skip(key, msg, tag) == TRUE

\* recomputes the tag and compares
hmac_verify(key, msg, tag) == tag = hmac_sign(key, msg)

\* ------------------------------------------------------------------------
\* The catalog (Config, read from quiz.toml at startup) and the server key
\* ------------------------------------------------------------------------

\* "y", "n", "Y", "j": answer strings
Yes == <<121>>

No == <<110>>

UpperYes == <<89>>

Ja == <<106>>

\* [[quiz]]: "a" is worth 100 points and has 4 questions, "b" is worth 7 points
\* and has 2 questions
ConfigQuiz ==
    << [name |-> <<97>>, points |-> 100,
        questions |-> << [question |-> <<49>>, correct |-> <<Ja, Yes>>, incorrect |-> <<No>>],
                         [question |-> <<50>>, correct |-> <<Yes>>, incorrect |-> <<No>>],
                         [question |-> <<51>>, correct |-> <<Yes>>, incorrect |-> <<No>>],
                         [question |-> <<52>>, correct |-> <<Yes>>, incorrect |-> <<No>>] >>],
       [name |-> <<98>>, points |-> 7,
        questions |-> << [question |-> <<53>>, correct |-> <<Yes>>, incorrect |-> <<No>>],
                         [question |-> <<54>>, correct |-> <<Yes>>, incorrect |-> <<No, Ja>>] >>] >>

\* [[wheel]]: one wheel, "w"
ConfigWheel == << [name |-> <<119>>] >>

\* [[code]]: "c" is worth 1 point from time 1 to time 2, "e" 2 points from time 2
\* to time 4, "K" (configured in upper case) 4 points from time 0 to time 4
ConfigCode ==
    << [code |-> <<99>>, points |-> 1, valid_from |-> 1, valid_to |-> 2],
       [code |-> <<101>>, points |-> 2, valid_from |-> 2, valid_to |-> 4],
       [code |-> <<75>>, points |-> 4, valid_from |-> 0, valid_to |-> 4] >>

\* digest::SHA256_OUTPUT_LEN, the length of the secret key
KeyLen == 32

\* QuizController::new collects (key, item) pairs into a BTreeMap: of the items
\* with the same key, the last one stays.  The index of the item kept for key k:
LastWithKey(keys, k) ==
    CHOOSE i \in 1..Len(keys) : keys[i] = k /\ \A j \in 1..Len(keys) : keys[j] = k => j <= i

\* self.quiz: BTreeMap<String, Quiz>, keyed by quiz.name
quiz ==
    LET keys == [i \in 1..Len(ConfigQuiz) |-> ConfigQuiz[i].name]
    IN  [k \in {keys[i] : i \in 1..Len(keys)} |-> ConfigQuiz[LastWithKey(keys, k)]]

\* self.codes: BTreeMap<String, Code>, keyed by code.code as configured
codes ==
    LET keys == [i \in 1..Len(ConfigCode) |-> ConfigCode[i].code]
    IN  [k \in {keys[i] : i \in 1..Len(keys)} |-> ConfigCode[LastWithKey(keys, k)]]

\* self.wheel: BTreeSet<String>
wheel == {ConfigWheel[i].name : i \in 1..Len(ConfigWheel)}

\* self.secret_key
secret_key == [i \in 1..KeyLen |-> 75]

\* ------------------------------------------------------------------------
\* QuizController
\* ------------------------------------------------------------------------

\* the i-th value OsRng.fill may give a [u8; 16]
UserId(i) == [j \in 1..16 |-> i]

create_user(id) == [id |-> id, answers |-> << >>, wheels |-> << >>]

\* str::splitn(2, sep): the part before the first separator, and the rest after
\* it when there is one
SplitN2(text, sep) ==
    IF \E i \in 1..Len(text) : text[i] = sep
    THEN LET i == CHOOSE i \in 1..Len(text) :
                      text[i] = sep /\ \A j \in 1..(i - 1) : text[j] # sep
         IN  <<SubSeq(text, 1, i - 1), SubSeq(text, i + 1, Len(text))>>
    ELSE <<text>>

\* ? on the result of bincode::deserialize
DecodeState(state) == IF ~state.ok THEN Err("bad payload") ELSE Ok(state.val)

\* the last steps of decode_user: the tag is checked, then the payload is read
DecodeVerified(user_state, signature) ==
    IF ~hmac_verify(secret_key, user_state, signature) THEN Err("invalid signature")
    ELSE DecodeState(Deserialize(user_state))

\* both parts base64-decoded
DecodeSigned(user_state, signature) ==
    IF ~signature.ok THEN Err("bad base64")
    ELSE DecodeVerified(user_state.val, signature.val)

\* the second part of the token, after the first part decoded to user_state
DecodeSignature(parts, user_state) ==
    IF ~user_state.ok THEN Err("bad base64")
    ELSE IF Len(parts) < 2 THEN Err("bad authorization token")
    ELSE DecodeSigned(user_state, Base64Decode(parts[2]))

DecodeParts(parts) == DecodeSignature(parts, Base64Decode(parts[1]))

decode_user(token) == DecodeParts(SplitN2(token, 58))

\* mutant: the tag is computed over the base64 text, not over the bytes
encode_user_signs_text(user_state) ==
    Base64Encode(Serialize(user_state)) \o <<58>>
        \o Base64Encode(hmac_sign(secret_key, Base64Encode(Serialize(user_state))))

encode_user(user_state) ==
    LET bytes == Serialize(user_state)
        signature == hmac_sign(secret_key, bytes)
    IN  Base64Encode(bytes) \o <<58>> \o Base64Encode(signature)

next_question(quiz_name, user_state) ==
    IF quiz_name \notin DOMAIN quiz THEN None
    ELSE LET index == IF quiz_name \in DOMAIN user_state.answers
                      THEN Len(user_state.answers[quiz_name])
                      ELSE 0
             questions == quiz[quiz_name].questions
         IN  IF index + 1 <= Len(questions) THEN Some(questions[index + 1]) ELSE None

\* mutant: the answer replaces the quiz's recorded answers (insert, not push)
answer_question_overwrites(quiz_name, user_state, answer) ==
    IF ~next_question(quiz_name, user_state).some THEN [ret |-> None, state |-> user_state]
    ELSE LET question == next_question(quiz_name, user_state).val
             answer_matches == \E i \in 1..Len(question.correct) : question.correct[i] = answer
         IN  [ret |-> Some(<<answer_matches, question>>),
              state |-> [user_state EXCEPT
                            !.answers = (quiz_name :> <<answer_matches>>) @@ user_state.answers]]

\* mutant: the answers entry is created before the question is looked up
answer_question_creates_entry(quiz_name, user_state, answer) ==
    IF next_question(quiz_name, user_state).some
    THEN LET question == next_question(quiz_name, user_state).val
             answer_matches == \E i \in 1..Len(question.correct) : question.correct[i] = answer
             answers == IF quiz_name \notin DOMAIN user_state.answers
                        THEN (quiz_name :> <<answer_matches>>) @@ user_state.answers
                        ELSE [user_state.answers EXCEPT ![quiz_name] = Append(@, answer_matches)]
         IN  [ret |-> Some(<<answer_matches, question>>),
              state |-> [user_state EXCEPT !.answers = answers]]
    ELSE [ret |-> None,
          state |-> [user_state EXCEPT
                        !.answers = IF quiz_name \in DOMAIN user_state.answers
                                    THEN user_state.answers
                                    ELSE (quiz_name :> << >>) @@ user_state.answers]]

\* the state after the call and what the call returns
answer_question(quiz_name, user_state, answer) ==
    LET question == next_question(quiz_name, user_state)
    IN  IF ~question.some THEN [ret |-> None, state |-> user_state]
        ELSE LET answer_matches ==
                     \E i \in 1..Len(question.val.correct) : question.val.correct[i] = answer
                 answers ==
                     IF quiz_name \notin DOMAIN user_state.answers
                     THEN (quiz_name :> <<answer_matches>>) @@ user_state.answers
                     ELSE [user_state.answers EXCEPT ![quiz_name] = Append(@, answer_matches)]
             IN  [ret |-> Some(<<answer_matches, question.val>>),
                  state |-> [user_state EXCEPT !.answers = answers]]

\* spin_wheel's CHOICES: (points, weight)
CHOICES == << <<20, 3>>, <<40, 2>>, <<60, 1>> >>

\* what choose_weighted can draw: any choice of positive weight
Draws == {i \in 1..Len(CHOICES) : CHOICES[i][2] > 0}

\* a mutation of spin_wheel: the state is rebuilt with the wheels alone
spin_wheel_forgets_answers(wheel_name, user_state, draw) ==
    IF wheel_name \notin wheel THEN [ret |-> None, state |-> user_state]
    ELSE IF wheel_name \in DOMAIN user_state.wheels THEN [ret |-> None, state |-> user_state]
    ELSE [ret |-> Some(CHOICES[draw][1]),
          state |-> [id |-> user_state.id, answers |-> << >>,
                     wheels |-> (wheel_name :> CHOICES[draw][1]) @@ user_state.wheels]]

\* mutant: a wheel that has an entry is drawn again and the entry replaced
spin_wheel_again(wheel_name, user_state, draw) ==
    IF wheel_name \notin wheel THEN [ret |-> None, state |-> user_state]
    ELSE [ret |-> Some(CHOICES[draw][1]),
          state |-> [user_state EXCEPT
                        !.wheels = (wheel_name :> CHOICES[draw][1]) @@ user_state.wheels]]

\* draw is the index choose_weighted picks when the wheel is spun
spin_wheel(wheel_name, user_state, draw) ==
    IF wheel_name \notin wheel THEN [ret |-> None, state |-> user_state]
    ELSE IF wheel_name \in DOMAIN user_state.wheels THEN [ret |-> None, state |-> user_state]
    ELSE LET pts == CHOICES[draw][1]
         IN  [ret |-> Some(pts),
              state |-> [user_state EXCEPT !.wheels = (wheel_name :> pts) @@ user_state.wheels]]

\* the number of true entries of a Vec<bool>
CountTrue(answers) == Cardinality({i \in 1..Len(answers) : answers[i]})

\* mutant: the score is the share of the questions answered so far
points_of_answered(user_state) ==
    LET names == SortedKeys({n \in DOMAIN user_state.answers : n \in DOMAIN quiz})
        score(n) == (quiz[n].points * CountTrue(user_state.answers[n]))
                        \div Len(user_state.answers[n])
        wheels == SortedKeys(DOMAIN user_state.wheels)
    IN  SumSeq([i \in 1..Len(names) |-> score(names[i])])
        + SumSeq([i \in 1..Len(wheels) |-> user_state.wheels[wheels[i]]])

\* u32 sums; the catalog's values keep them far below 2^32
points(user_state) ==
    LET names == SortedKeys({n \in DOMAIN user_state.answers : n \in DOMAIN quiz})
        score(n) == (quiz[n].points * CountTrue(user_state.answers[n]))
                        \div Len(quiz[n].questions)
        wheels == SortedKeys(DOMAIN user_state.wheels)
    IN  SumSeq([i \in 1..Len(names) |-> score(names[i])])
        + SumSeq([i \in 1..Len(wheels) |-> user_state.wheels[wheels[i]]])

\* ------------------------------------------------------------------------
\* State
\* ------------------------------------------------------------------------

VARIABLES
    st,      \* the UserState a caller of the controller holds (&mut UserState)
    call,    \* the last call made: its arguments, the state before it, its result
    nextId,  \* how many ids OsRng has given out; each id is new
    jar,     \* the tokens the clients hold, each with the number of wheel draws
             \* answered along the chain of requests that led to it
    draws,   \* per session id and wheel: the number of wheel draws answered
    resp,    \* the last response sent
    served,  \* the number of quiz, wheel and stats requests served
    tasks,   \* the checkout requests made, each with the step its task is at
    lock,    \* the task that holds the writer's MutexGuard, 0 when none does
    buf,     \* the buffer of the csv::Writer
    log,     \* the content of users.csv
    poisoned \* the poison flag of the writer's Mutex

ctlVars == <<st, call, nextId>>

httpVars == <<jar, draws, resp, served>>

writerVars == <<tasks, lock, buf, log, poisoned>>

vars == <<st, call, nextId, jar, draws, resp, served, tasks, lock, buf, log, poisoned>>

\* ------------------------------------------------------------------------
\* Inputs
\* ------------------------------------------------------------------------

\* quiz names a caller may pass: the catalog's and "z", which is not a quiz
QuizNames == DOMAIN quiz \cup {<<122>>}

\* wheel names a caller may pass: the catalog's and "x", which is not a wheel
WheelNames == wheel \cup {<<120>>}

\* answer strings a caller may pass
AnswerStrings == {Yes, No, UpperYes, Ja}

\* ------------------------------------------------------------------------
\* The server before its first request
\* ------------------------------------------------------------------------

\* no request has been served
HttpInit ==
    /\ jar = << >>
    /\ draws = [i \in 1..NumIds, w \in wheel |-> 0]
    /\ resp = [op |-> "none"]
    /\ served = 0

\* no request has been made; users.csv is empty
WriterInit ==
    /\ tasks = << >>
    /\ lock = 0
    /\ buf = << >>
    /\ log = << >>
    /\ poisoned = FALSE

\* ------------------------------------------------------------------------
\* SpecCtl: the controller's operations on one caller-held UserState
\* ------------------------------------------------------------------------

CtlInit ==
    /\ st = None
    /\ call = [op |-> "new"]
    /\ nextId = 1
    /\ HttpInit
    /\ WriterInit

CtlCreateUser ==
    /\ nextId <= NumIds
    /\ st' = Some(create_user(UserId(nextId)))
    /\ nextId' = nextId + 1
    /\ call' = [op |-> "create_user"]
    /\ UNCHANGED <<httpVars, writerVars>>

CtlNextQuestion(quiz_name) ==
    /\ st.some
    /\ call' = [op |-> "next_question", quiz_name |-> quiz_name, pre |-> st.val,
                ret |-> next_question(quiz_name, st.val)]
    /\ UNCHANGED <<st, nextId, httpVars, writerVars>>

CtlAnswerQuestion(quiz_name, answer) ==
    /\ st.some
    /\ LET r == answer_question(quiz_name, st.val, answer)
       IN  /\ st' = Some(r.state)
           /\ call' = [op |-> "answer_question", quiz_name |-> quiz_name,
                       answer |-> answer, pre |-> st.val, ret |-> r.ret]
    /\ UNCHANGED <<nextId, httpVars, writerVars>>

CtlSpinWheel(wheel_name, draw) ==
    /\ st.some
    /\ LET r == spin_wheel(wheel_name, st.val, draw)
       IN  /\ st' = Some(r.state)
           /\ call' = [op |-> "spin_wheel", wheel_name |-> wheel_name,
                       pre |-> st.val, ret |-> r.ret]
    /\ UNCHANGED <<nextId, httpVars, writerVars>>

CtlPoints ==
    /\ st.some
    /\ call' = [op |-> "points", pre |-> st.val, ret |-> points(st.val)]
    /\ UNCHANGED <<st, nextId, httpVars, writerVars>>

CtlEncodeUser ==
    /\ st.some
    /\ call' = [op |-> "encode_user", pre |-> st.val, ret |-> encode_user(st.val)]
    /\ UNCHANGED <<st, nextId, httpVars, writerVars>>

\* the token just issued is presented back
CtlDecodeUser ==
    /\ call.op = "encode_user"
    /\ call' = [op |-> "decode_user", token |-> call.ret, pre |-> st.val,
                changed |-> "nothing", ret |-> decode_user(call.ret)]
    /\ UNCHANGED <<st, nextId, httpVars, writerVars>>

CtlNext ==
    \/ CtlCreateUser
    \/ \E quiz_name \in QuizNames : CtlNextQuestion(quiz_name)
    \/ \E quiz_name \in QuizNames, answer \in AnswerStrings :
           CtlAnswerQuestion(quiz_name, answer)
    \/ \E wheel_name \in WheelNames, draw \in Draws : CtlSpinWheel(wheel_name, draw)
    \/ CtlPoints
    \/ CtlEncodeUser
    \/ CtlDecodeUser

SpecCtl == CtlInit /\ [][CtlNext]_vars

\* ------------------------------------------------------------------------
\* SpecPoints: points() on any UserState a validly signed token can carry,
\* tokens issued under an earlier catalog (same key) included
\* ------------------------------------------------------------------------

QuizA == <<97>>

QuizB == <<98>>

WheelW == <<119>>

\* "o", a quiz of an earlier catalog; "v", a wheel of an earlier catalog
StaleQuiz == <<111>>

StaleWheel == <<118>>

\* the non-empty Vec<bool> of at most n entries
BoolSeqs(n) == UNION {[1..k -> BOOLEAN] : k \in 1..n}

\* no entry under key k, or one of the given values
OptionalEntry(k, values) == {<< >>} \cup {k :> v : v \in values}

ChoicePoints == {CHOICES[i][1] : i \in 1..Len(CHOICES)}

PointsInputs ==
    {[id |-> UserId(1), answers |-> a @@ b @@ o, wheels |-> w @@ v] :
        a \in OptionalEntry(QuizA, BoolSeqs(Len(quiz[QuizA].questions))),
        b \in OptionalEntry(QuizB, BoolSeqs(Len(quiz[QuizB].questions))),
        o \in OptionalEntry(StaleQuiz, BoolSeqs(StaleQuizLen)),
        w \in OptionalEntry(WheelW, ChoicePoints),
        v \in OptionalEntry(StaleWheel, ChoicePoints)}

PointsInit ==
    /\ st \in {Some(s) : s \in PointsInputs}
    /\ call = [op |-> "new"]
    /\ nextId = 2
    /\ HttpInit
    /\ WriterInit

SpecPoints == PointsInit /\ [][CtlPoints]_vars

\* ------------------------------------------------------------------------
\* SpecCodec: a token issued by encode_user, presented back changed
\* ------------------------------------------------------------------------

\* states reached from create_user by answer_question and spin_wheel
CodecState1 == create_user(UserId(1))

CodecState2 == answer_question(QuizB, CodecState1, Yes).state

CodecState3 == spin_wheel(WheelW, CodecState2, 2).state

CodecState4 == answer_question(QuizA, CodecState3, No).state

CodecState5 == answer_question(QuizB, CodecState4, No).state

CodecState6 == spin_wheel(WheelW, CodecState1, 1).state

CodecStates ==
    {CodecState1, CodecState2, CodecState3, CodecState4, CodecState5, CodecState6}

\* a key that is not the server's
attacker_key == [i \in 1..KeyLen |-> 66]

CodecInit ==
    /\ st \in {Some(s) : s \in CodecStates}
    /\ call = [op |-> "new"]
    /\ nextId = 2
    /\ HttpInit
    /\ WriterInit

\* the character with one of its bits flipped
FlipBit(c, bit) == IF (c \div Pow2(bit)) % 2 = 1 THEN c - Pow2(bit) ELSE c + Pow2(bit)

\* the position of the ':' of an issued token
ColonPos(token) == CHOOSE i \in 1..Len(token) : token[i] = 58

\* which part of an issued token position pos lies in
PartAt(token, pos) == IF pos < ColonPos(token) THEN "payload" ELSE "signature"

\* the character positions of the token just issued
TokenPositions == IF call.op = "encode_user" THEN 1..Len(call.ret) ELSE {}

\* decode_user on a changed token
Present(token, changed) ==
    /\ call' = [op |-> "decode_user", token |-> token, pre |-> st.val,
                changed |-> changed, ret |-> decode_user(token)]
    /\ UNCHANGED <<st, nextId, httpVars, writerVars>>

\* one bit of one character of the payload or of the signature is flipped
CodecFlipBit(pos, bit) ==
    /\ call.op = "encode_user"
    /\ pos # ColonPos(call.ret)
    /\ Present([call.ret EXCEPT ![pos] = FlipBit(@, bit)], PartAt(call.ret, pos))

\* one character of the payload or of the signature is removed
CodecDropChar(pos) ==
    /\ call.op = "encode_user"
    /\ pos # ColonPos(call.ret)
    /\ Present(SubSeq(call.ret, 1, pos - 1) \o SubSeq(call.ret, pos + 1, Len(call.ret)),
               PartAt(call.ret, pos))

\* the payload is replaced by the payload of another issued token
CodecSplicePayload(other) ==
    /\ call.op = "encode_user"
    /\ other # st.val
    /\ LET mine == SplitN2(call.ret, 58)
           theirs == SplitN2(encode_user(other), 58)
       IN  Present(theirs[1] \o <<58>> \o mine[2], "payload")

\* the signature is replaced by the signature of another issued token
CodecSpliceSignature(other) ==
    /\ call.op = "encode_user"
    /\ other # st.val
    /\ LET mine == SplitN2(call.ret, 58)
           theirs == SplitN2(encode_user(other), 58)
       IN  Present(mine[1] \o <<58>> \o theirs[2], "signature")

\* the signature is replaced by the tag of the payload under another key
CodecForge ==
    /\ call.op = "encode_user"
    /\ LET mine == SplitN2(call.ret, 58)
       IN  Present(mine[1] \o <<58>>
                       \o Base64Encode(hmac_sign(attacker_key, Serialize(st.val))),
                   "signature")

CodecNext ==
    \/ CtlEncodeUser
    \/ CtlDecodeUser
    \/ \E pos \in TokenPositions, bit \in 0..6 : CodecFlipBit(pos, bit)
    \/ \E pos \in TokenPositions : CodecDropChar(pos)
    \/ \E other \in CodecStates : CodecSplicePayload(other)
    \/ \E other \in CodecStates : CodecSpliceSignature(other)
    \/ CodecForge

SpecCodec == CodecInit /\ [][CodecNext]_vars

\* ------------------------------------------------------------------------
\* Spec: the quiz, wheel and stats routes, each request carrying the
\* session in its Authorization header and each reply issuing the next token
\* ------------------------------------------------------------------------

\* u8::to_ascii_lowercase
ToAsciiLower(c) == IF c >= 65 /\ c <= 90 THEN c + 32 ELSE c

\* str::eq_ignore_ascii_case
eq_ignore_ascii_case(a, b) ==
    /\ Len(a) = Len(b)
    /\ \A i \in 1..Len(a) : ToAsciiLower(a[i]) = ToAsciiLower(b[i])

\* "userstate", the scheme of the Authorization header
Userstate == <<117, 115, 101, 114, 115, 116, 97, 116, 101>>

\* reject::custom(Unauthorized)
Unauthorized == Err("Unauthorized")

\* decode_user(value).map_err(|_err| reject::custom(Unauthorized))
UserStateValue(decoded) == IF decoded.ok THEN Ok(decoded.val) ELSE Unauthorized

\* a mutation of filter_user_state: a credential that is refused starts a new
\* session
filter_user_state_falls_back(auth, id) ==
    IF ~auth.some THEN Ok(create_user(id))
    ELSE IF Len(SplitN2(auth.val, 32)) < 2 THEN Ok(create_user(id))
    ELSE IF ~eq_ignore_ascii_case(SplitN2(auth.val, 32)[1], Userstate)
         THEN Ok(create_user(id))
    ELSE IF ~decode_user(SplitN2(auth.val, 32)[2]).ok THEN Ok(create_user(id))
    ELSE UserStateValue(decode_user(SplitN2(auth.val, 32)[2]))

\* a mutation of filter_user_state: the scheme word is not compared
filter_user_state_any_scheme(auth, id) ==
    IF ~auth.some THEN Ok(create_user(id))
    ELSE IF Len(SplitN2(auth.val, 32)) < 2 THEN Unauthorized
    ELSE UserStateValue(decode_user(SplitN2(auth.val, 32)[2]))

\* filters::user_state: the session of a request; id is what OsRng gives
\* create_user when the request has no Authorization header
filter_user_state(auth, id) ==
    IF ~auth.some THEN Ok(create_user(id))
    ELSE IF Len(SplitN2(auth.val, 32)) < 2 THEN Unauthorized
    ELSE IF ~eq_ignore_ascii_case(SplitN2(auth.val, 32)[1], Userstate) THEN Unauthorized
    ELSE UserStateValue(decode_user(SplitN2(auth.val, 32)[2]))

\* the schemes a client writes in front of a token: the documented one, the
\* same in capitals, and one the filter does not know ("bearer")
Schemes ==
    [userstate |-> Userstate,
     USERSTATE |-> <<85, 83, 69, 82, 83, 84, 65, 84, 69>>,
     bearer |-> <<98, 101, 97, 114, 101, 114>>]

\* the Authorization header of a request: none, or a scheme and a token;
\* cred.scheme names what the client wrote: one of the Schemes before the
\* token, "missing" for a token with no scheme word before it, and any other
\* name for the documented scheme before a token that was changed (Damaged)
Header(cred) ==
    IF cred.scheme = "none" THEN None
    ELSE IF cred.scheme \in DOMAIN Schemes
         THEN Some(Schemes[cred.scheme] \o <<32>> \o cred.token)
    ELSE IF cred.scheme = "missing" THEN Some(cred.token)
    ELSE Some(Userstate \o <<32>> \o cred.token)

\* the quiz names, answers and wheel names sent over HTTP
HttpQuizNames == {<<98>>, <<122>>}

HttpAnswers == {Yes, No}

\* the sessions these requests can lead to
HttpStates ==
    {[id |-> UserId(i), answers |-> b, wheels |-> w] :
        i \in 1..NumIds,
        b \in OptionalEntry(<<98>>, BoolSeqs(Len(quiz[<<98>>].questions))),
        w \in OptionalEntry(<<119>>, {CHOICES[d][1] : d \in Draws})}

\* encode_user and the filter are functions of their arguments alone; their
\* values on the sessions and headers in circulation are tabulated once (TLC
\* tabulates a function when it is merged with another, here the empty one)
TokenTable == [s \in HttpStates |-> encode_user(s)] @@ << >>

\* an issued token changed so that decode_user fails at one of its steps:
\* no ':' and no second part; a character outside the base64 alphabet ('!') in
\* the first or in the second part; a tag made with another key; and a payload
\* cut short under a tag made with the server's key
Damaged(token, how) ==
    LET parts == SplitN2(token, 58)
        bytes == Base64Decode(parts[1]).val
        short == SubSeq(bytes, 1, Len(bytes) - 1)
    IN  CASE how = "no_colon" -> parts[1]
          [] how = "bad_payload" -> [token EXCEPT ![1] = 33]
          [] how = "bad_signature" -> [token EXCEPT ![Len(token)] = 33]
          [] how = "tag_mismatch" ->
                 parts[1] \o <<58>> \o Base64Encode(hmac_sign(attacker_key, bytes))
          [] how = "unreadable" ->
                 Base64Encode(short) \o <<58>>
                     \o Base64Encode(hmac_sign(secret_key, short))

Damages == {"no_colon", "bad_payload", "bad_signature", "tag_mismatch", "unreadable"}

\* the session whose token the clients of SpecAuth hold and change: one wrong
\* answer to quiz "b", no points yet
AuthState == answer_question(QuizB, CodecState1, No).state

HeaderTable ==
    [h \in {Header([scheme |-> k, token |-> TokenTable[s]]) :
                k \in DOMAIN Schemes \cup {"missing"}, s \in HttpStates}
            \cup {Header([scheme |-> d, token |-> Damaged(encode_user(AuthState), d)]) :
                      d \in Damages} |->
        filter_user_state(h, UserId(1))] @@ << >>

\* quiz_controller.encode_user(&user_state).unwrap()
Token(s) == IF s \in DOMAIN TokenTable THEN TokenTable[s] ELSE encode_user(s)

\* the user_state filter applied to a request
RequestState(auth, id) ==
    IF auth \in DOMAIN HeaderTable THEN HeaderTable[auth] ELSE filter_user_state(auth, id)

\* the credentials a client can send: none, or a token it holds
Credentials ==
    {[scheme |-> "none"]}
        \cup {[scheme |-> k, token |-> t] : k \in DOMAIN Schemes, t \in DOMAIN jar}

\* the index of a session id among the ids given out
IdIndex(id) == CHOOSE i \in 1..NumIds : UserId(i) = id

\* wheel draws answered along the chain of requests behind a credential
Chain(cred) ==
    IF cred.scheme = "none" \/ cred.token \notin DOMAIN jar
    THEN [w \in wheel |-> 0]
    ELSE jar[cred.token]

\* the jar with token t in it, reached over a chain with c draws
Put(j, t, c) ==
    [x \in DOMAIN j \cup {t} |->
        IF x # t THEN j[x]
        ELSE IF t \in DOMAIN j
             THEN [w \in wheel |-> IF j[t][w] > c[w] THEN j[t][w] ELSE c[w]]
             ELSE c]

\* the clients keep every token they are sent
ClientKeeps(cred, token, c) == jar' = Put(jar, token, c)

\* one more quiz, wheel or stats request is served
Served ==
    /\ served < MaxRequests
    /\ served' = served + 1

\* create_user draws an id for a request without Authorization header
IdDrawn(cred) ==
    /\ cred.scheme = "none" => nextId <= NumIds
    /\ nextId' = IF cred.scheme = "none" THEN nextId + 1 ELSE nextId

\* the filter rejected the request with Unauthorized, written as status 401
Rejected(op, path, cred) ==
    /\ resp' = [op |-> op, path |-> path, scheme |-> cred.scheme, status |-> 401]
    /\ UNCHANGED <<jar, draws>>

\* the handler replied NotFound
NotFound(op, path, cred) ==
    /\ resp' = [op |-> op, path |-> path, scheme |-> cred.scheme, status |-> 404]
    /\ UNCHANGED <<jar, draws>>

\* GET /quiz/:name
GetQuiz(cred, quiz_name) ==
    /\ Served
    /\ IdDrawn(cred)
    /\ LET us == RequestState(Header(cred), UserId(nextId))
       IN  IF ~us.ok THEN Rejected("get_quiz", quiz_name, cred)
           ELSE IF ~next_question(quiz_name, us.val).some THEN NotFound("get_quiz", quiz_name, cred)
           ELSE /\ resp' = [op |-> "get_quiz", path |-> quiz_name,
                            scheme |-> cred.scheme, status |-> 200,
                            question |-> next_question(quiz_name, us.val).val.question,
                            session |-> us.val]
                /\ ClientKeeps(cred, Token(us.val), Chain(cred))
                /\ UNCHANGED draws
    /\ UNCHANGED <<st, call, writerVars>>

\* the reply of POST /quiz/:name to an answer that was taken
QuizAnswered(cred, quiz_name, r) ==
    /\ resp' = [op |-> "post_quiz", path |-> quiz_name,
                scheme |-> cred.scheme, status |-> 200,
                is_correct |-> r.ret.val[1], session |-> r.state]
    /\ ClientKeeps(cred, Token(r.state), Chain(cred))
    /\ UNCHANGED draws

\* POST /quiz/:name
PostQuiz(cred, quiz_name, answer) ==
    /\ Served
    /\ IdDrawn(cred)
    /\ LET us == RequestState(Header(cred), UserId(nextId))
       IN  IF ~us.ok THEN Rejected("post_quiz", quiz_name, cred)
           ELSE IF ~answer_question(quiz_name, us.val, answer).ret.some
                THEN NotFound("post_quiz", quiz_name, cred)
                ELSE QuizAnswered(cred, quiz_name,
                                  answer_question(quiz_name, us.val, answer))
    /\ UNCHANGED <<st, call, writerVars>>

\* mutant: the token of the reply leaves out the entry of the wheel just spun
WheelDrawn_without_entry(cred, wheel_name, r) ==
    /\ draws' = [draws EXCEPT ![IdIndex(r.state.id), wheel_name] = @ + 1]
    /\ resp' = [op |-> "post_wheel", path |-> wheel_name,
                scheme |-> cred.scheme, status |-> 200,
                points |-> r.ret.val, session |-> r.state]
    /\ ClientKeeps(cred,
                   Token([r.state EXCEPT
                             !.wheels = [x \in DOMAIN r.state.wheels \ {wheel_name} |->
                                            r.state.wheels[x]]]),
                   [Chain(cred) EXCEPT ![wheel_name] = @ + 1])

\* the reply of POST /wheel/:name to a spin that drew a value
WheelDrawn(cred, wheel_name, r) ==
    /\ draws' = [draws EXCEPT ![IdIndex(r.state.id), wheel_name] = @ + 1]
    /\ resp' = [op |-> "post_wheel", path |-> wheel_name,
                scheme |-> cred.scheme, status |-> 200,
                points |-> r.ret.val, session |-> r.state]
    /\ ClientKeeps(cred, Token(r.state), [Chain(cred) EXCEPT ![wheel_name] = @ + 1])

\* a mutation of PostWheel: the server remembers the wheels a session has drawn
PostWheel_remembers(cred, wheel_name, draw) ==
    /\ Served
    /\ IdDrawn(cred)
    /\ LET us == RequestState(Header(cred), UserId(nextId))
       IN  IF ~us.ok THEN Rejected("post_wheel", wheel_name, cred)
           ELSE IF \/ ~spin_wheel(wheel_name, us.val, draw).ret.some
                   \/ draws[IdIndex(us.val.id), wheel_name] > 0
                THEN NotFound("post_wheel", wheel_name, cred)
                ELSE WheelDrawn(cred, wheel_name, spin_wheel(wheel_name, us.val, draw))
    /\ UNCHANGED <<st, call, writerVars>>

\* POST /wheel/:name
PostWheel(cred, wheel_name, draw) ==
    /\ Served
    /\ IdDrawn(cred)
    /\ LET us == RequestState(Header(cred), UserId(nextId))
       IN  IF ~us.ok THEN Rejected("post_wheel", wheel_name, cred)
           ELSE IF ~spin_wheel(wheel_name, us.val, draw).ret.some
                THEN NotFound("post_wheel", wheel_name, cred)
                ELSE WheelDrawn(cred, wheel_name, spin_wheel(wheel_name, us.val, draw))
    /\ UNCHANGED <<st, call, writerVars>>

\* GET /stats
Stats(cred) ==
    /\ Served
    /\ IdDrawn(cred)
    /\ LET us == RequestState(Header(cred), UserId(nextId))
       IN  IF ~us.ok THEN Rejected("stats", << >>, cred)
           ELSE /\ resp' = [op |-> "stats", path |-> << >>,
                            scheme |-> cred.scheme, status |-> 200,
                            total_points |-> points(us.val), session |-> us.val]
                /\ UNCHANGED <<jar, draws>>
    /\ UNCHANGED <<st, call, writerVars>>

Init ==
    /\ st = None
    /\ call = [op |-> "new"]
    /\ nextId = 1
    /\ HttpInit
    /\ WriterInit

Next ==
    \/ \E cred \in Credentials, quiz_name \in HttpQuizNames : GetQuiz(cred, quiz_name)
    \/ \E cred \in Credentials, quiz_name \in HttpQuizNames, answer \in HttpAnswers :
           PostQuiz(cred, quiz_name, answer)
    \/ \E cred \in Credentials, wheel_name \in WheelNames, draw \in Draws :
           PostWheel(cred, wheel_name, draw)
    \/ \E cred \in Credentials : Stats(cred)

Spec == Init /\ [][Next]_vars

\* ------------------------------------------------------------------------
\* SpecCheckout: POST /checkout, one task per request, and the record
\* writer the tasks share
\* ------------------------------------------------------------------------

\* char::is_whitespace on ASCII
IsWhitespace(c) == c \in {9, 10, 11, 12, 13, 32}

\* str::trim
trim(s) ==
    IF \A i \in 1..Len(s) : IsWhitespace(s[i]) THEN << >>
    ELSE SubSeq(s,
                CHOOSE i \in 1..Len(s) :
                    ~IsWhitespace(s[i]) /\ \A j \in 1..(i - 1) : IsWhitespace(s[j]),
                CHOOSE i \in 1..Len(s) :
                    ~IsWhitespace(s[i]) /\ \A j \in (i + 1)..Len(s) : IsWhitespace(s[j]))

\* str::to_lowercase on ASCII
to_lowercase(s) == [i \in 1..Len(s) |-> ToAsciiLower(s[i])]

\* hex::encode
HexDigit(n) == IF n < 10 THEN 48 + n ELSE 87 + n

HexEncode(bytes) ==
    [i \in 1..(2 * Len(bytes)) |->
        IF i % 2 = 1 THEN HexDigit(bytes[(i + 1) \div 2] \div 16)
        ELSE HexDigit(bytes[i \div 2] % 16)]

\* [String]::join(" ")
RECURSIVE Join(_)
Join(names) ==
    IF names = << >> THEN << >>
    ELSE IF Len(names) = 1 THEN names[1]
    ELSE names[1] \o <<32>> \o Join(Tail(names))

\* self.codes.get(&code.trim().to_lowercase()) is Some
CodeFound(code) == to_lowercase(trim(code)) \in DOMAIN codes

\* the submitted strings, collected into a BTreeSet, looked up in self.codes
\* in the set's order; the strings not found are left out
LookedUp(submitted) ==
    [i \in 1..Len(SelectSeq(SortedKeys({submitted[k] : k \in 1..Len(submitted)}), CodeFound)) |->
        codes[to_lowercase(trim(
            SelectSeq(SortedKeys({submitted[k] : k \in 1..Len(submitted)}), CodeFound)[i]))]]

\* a mutation of InWindow: the window ends before valid_to
InWindow_exclusive(found, now) ==
    LET valid(code) == code.valid_from <= now /\ code.valid_to > now
    IN  SelectSeq(found, valid)

\* of the codes looked up, those whose window holds now
InWindow(found, now) ==
    LET valid(code) == code.valid_from <= now /\ code.valid_to >= now
    IN  SelectSeq(found, valid)

\* Vec<String>::sort
SortedNames(names) == SortSeq(names, StrLess)

\* the UserRecord built for matched codes and their total; the record type
\* (models.rs) has the fields id, email, points, codes, time, and none for the
\* consent flag that register_user is given
NewRecord(matched, email, total, id, now) ==
    [id |-> HexEncode(id),
     email |-> email,
     points |-> total,
     codes |-> Join(SortedNames([i \in 1..Len(matched) |-> matched[i].code])),
     time |-> now]

\* mutant: a record is built whatever the total
register_user_always_records(submitted, email, consent, user_state, now) ==
    [points |-> points(user_state)
                  + SumSeq([i \in 1..Len(InWindow(LookedUp(submitted), now)) |->
                               InWindow(LookedUp(submitted), now)[i].points]),
     record |-> Some(NewRecord(InWindow(LookedUp(submitted), now), email,
                        points(user_state)
                          + SumSeq([i \in 1..Len(InWindow(LookedUp(submitted), now)) |->
                                       InWindow(LookedUp(submitted), now)[i].points]),
                        user_state.id, now))]

\* the total register_user computes from the matched codes
RegisterTotal(matched, user_state) ==
    points(user_state) + SumSeq([i \in 1..Len(matched) |-> matched[i].points])

\* register_user up to spawn_blocking: the points it will return, and the
\* record it hands to the writer when the points are positive
RegisterWith(matched, total, email, user_state, now) ==
    [points |-> total,
     record |-> IF total > 0
                THEN Some(NewRecord(matched, email, total, user_state.id, now))
                ELSE None]

RegisterMatched(matched, email, user_state, now) ==
    RegisterWith(matched, RegisterTotal(matched, user_state), email, user_state, now)

register_user(submitted, email, consent, user_state, now) ==
    RegisterMatched(InWindow(LookedUp(submitted), now), email, user_state, now)

\* the order in which csv::Writer::serialize writes the fields of a UserRecord
RecordFields == <<"id", "email", "points", "codes", "time">>

\* the k-th field of a record as written
Cell(record, k) == [field |-> RecordFields[k], value |-> record[RecordFields[k]]]

\* the record terminator
Terminator == [field |-> "eol"]

\* a record as it stands in the file
Line(record) == [k \in 1..Len(RecordFields) |-> Cell(record, k)] \o <<Terminator>>

\* mutant: the lock is taken whether or not it is held
MutexAvailable_always(holder) == TRUE

\* Mutex::lock returns when no task holds the guard
MutexAvailable(holder) == holder = 0

\* mutant: a record whose id is already in the file is not appended
flush_dedup(file, buffer) ==
    IF buffer # << >> /\ \E k \in 1..Len(file) : file[k] = buffer[1] THEN file
    ELSE file \o buffer

\* csv::Writer::flush: the buffered bytes are appended to the file
flush(file, buffer) == file \o buffer

\* !body.email.contains('@') || body.email.len() < 3
BadEmail(email) == (\A i \in 1..Len(email) : email[i] # 64) \/ Len(email) < 3

\* what the clients of POST /checkout send: sessions, code lists, emails
CheckoutStates == {CodecState1, CodecState3}

CheckoutCredentials ==
    {[scheme |-> "none"]}
        \cup {[scheme |-> "userstate", token |-> Token(s)] : s \in CheckoutStates}

\* no code; "E", "c " and "zz" (found as e and c, and not found)
CodeLists == {<< >>, << <<69>>, <<99, 32>>, <<122, 122>> >>}

\* "a@b" and "ab"
Emails == {<<97, 64, 98>>, <<97, 98>>}

\* the clock readings of Utc::now(): time 1, when the window of "c" alone is open,
\* and time 2, the last instant of the window of "c" and the first of "e"
Times == {1, 2}

\* a request that ended before register_user was called
Ended(status, scheme) ==
    [pc |-> "done", status |-> status, scheme |-> scheme, session |-> None,
     codes |-> << >>, email |-> << >>, now |-> 0, points |-> 0, record |-> None,
     written |-> 0, flushes |-> 0]

\* a request in register_user
Registering(us, scheme, body, now, r) ==
    [pc |-> IF r.record.some THEN "spawned" ELSE "done",
     status |-> IF r.record.some THEN 0 ELSE 200, scheme |-> scheme,
     session |-> Some(us), codes |-> body.codes, email |-> body.email, now |-> now,
     points |-> r.points, record |-> r.record, written |-> 0,
     flushes |-> 0]

\* POST /checkout up to the reply or to spawn_blocking
Checkout(cred, body, now) ==
    /\ Len(tasks) < MaxCheckouts
    /\ IdDrawn(cred)
    /\ LET us == RequestState(Header(cred), UserId(nextId))
       IN  IF ~us.ok THEN tasks' = Append(tasks, Ended(401, cred.scheme))
           ELSE IF BadEmail(body.email)
                THEN tasks' = Append(tasks, Ended(404, cred.scheme))
           ELSE tasks' = Append(tasks,
                    Registering(us.val, cred.scheme, body, now,
                        register_user(body.codes, body.email, body.consent, us.val, now)))
    /\ UNCHANGED <<st, call, httpVars, lock, buf, log, poisoned>>

\* MutexGuard::drop: the flag is set when the guard is dropped by a thread that
\* is panicking
GuardDropped(flag, panicking) == flag \/ panicking

\* UserWriter::write: self.writer.lock(), which waits for the guard and returns
\* it, or returns an error when the flag is set; map_err and `?` then drop the
\* guard and return "couldn't lock writer"
WriterLock(t) ==
    /\ tasks[t].pc = "spawned"
    /\ MutexAvailable(lock)
    /\ IF poisoned
       THEN /\ lock' = lock
            /\ tasks' = [tasks EXCEPT ![t].pc = "write_err"]
       ELSE /\ lock' = t
            /\ tasks' = [tasks EXCEPT ![t].pc = "locked"]
    /\ UNCHANGED <<st, call, nextId, httpVars, buf, log, poisoned>>

\* writer.serialize(record): the next field goes to the writer's buffer, the
\* terminator after the last one
WriterSerialize(t) ==
    /\ tasks[t].pc = "locked"
    /\ buf' = buf \o <<Cell(tasks[t].record.val, tasks[t].written + 1)>>
                  \o (IF tasks[t].written + 1 = Len(RecordFields)
                      THEN <<Terminator>> ELSE << >>)
    /\ tasks' = [tasks EXCEPT ![t].written = @ + 1,
                              ![t].pc = IF tasks[t].written + 1 = Len(RecordFields)
                                        THEN "serialized" ELSE "locked"]
    /\ UNCHANGED <<st, call, nextId, httpVars, lock, log, poisoned>>

\* writer.flush()
WriterFlush(t) ==
    /\ tasks[t].pc = "serialized"
    /\ log' = flush(log, buf)
    /\ buf' = << >>
    /\ tasks' = [tasks EXCEPT ![t].pc = "flushed", ![t].flushes = @ + 1]
    /\ UNCHANGED <<st, call, nextId, httpVars, lock, poisoned>>

\* write returns Ok(()) and its MutexGuard is dropped
WriterUnlock(t) ==
    /\ tasks[t].pc = "flushed"
    /\ lock' = 0
    /\ poisoned' = GuardDropped(poisoned, FALSE)
    /\ tasks' = [tasks EXCEPT ![t].pc = "written"]
    /\ UNCHANGED <<st, call, nextId, httpVars, buf, log>>

\* a mutation of CheckoutReply: the task is not awaited
CheckoutReply_not_awaited(t) ==
    /\ tasks[t].pc \in {"spawned", "written"}
    /\ tasks' = [tasks EXCEPT ![t].pc = "done", ![t].status = 200]
    /\ UNCHANGED <<st, call, nextId, httpVars, lock, buf, log, poisoned>>

\* blocking_task.await returns; register_user returns the points and the
\* handler replies with them
CheckoutReply(t) ==
    /\ tasks[t].pc = "written"
    /\ tasks' = [tasks EXCEPT ![t].pc = "done", ![t].status = 200]
    /\ UNCHANGED <<st, call, nextId, httpVars, lock, buf, log, poisoned>>

CheckoutInit ==
    /\ st = None
    /\ call = [op |-> "new"]
    /\ nextId = 2
    /\ HttpInit
    /\ WriterInit

CheckoutNext ==
    \/ \E cred \in CheckoutCredentials, submitted \in CodeLists, email \in Emails,
          consent \in BOOLEAN, now \in Times :
           Checkout(cred, [codes |-> submitted, email |-> email, consent |-> consent], now)
    \/ \E t \in 1..Len(tasks) : WriterLock(t)
    \/ \E t \in 1..Len(tasks) : WriterSerialize(t)
    \/ \E t \in 1..Len(tasks) : WriterFlush(t)
    \/ \E t \in 1..Len(tasks) : WriterUnlock(t)
    \/ \E t \in 1..Len(tasks) : CheckoutReply(t)

SpecCheckout == CheckoutInit /\ [][CheckoutNext]_vars

\* ------------------------------------------------------------------------
\* SpecFailure: POST /checkout when a write to users.csv can fail
\* ------------------------------------------------------------------------

\* writer.flush() when the file takes only the first k cells of the buffer:
\* write_all returns the error, and the buffer keeps what it held
WriterFlushFails(t, k) ==
    /\ tasks[t].pc = "serialized"
    /\ k < Len(buf)
    /\ log' = log \o SubSeq(buf, 1, k)
    /\ tasks' = [tasks EXCEPT ![t].pc = "flush_err", ![t].flushes = @ + 1]
    /\ UNCHANGED <<st, call, nextId, httpVars, lock, buf, poisoned>>

\* a mutation of WriterReturnErr: the error is unwrapped while the guard is held
WriterReturnErr_unwinding(t) ==
    /\ tasks[t].pc = "flush_err"
    /\ lock' = 0
    /\ poisoned' = GuardDropped(poisoned, TRUE)
    /\ tasks' = [tasks EXCEPT ![t].pc = "write_err"]
    /\ UNCHANGED <<st, call, nextId, httpVars, buf, log>>

\* `?` returns the error from write, and the MutexGuard is dropped on the way
WriterReturnErr(t) ==
    /\ tasks[t].pc = "flush_err"
    /\ lock' = 0
    /\ poisoned' = GuardDropped(poisoned, FALSE)
    /\ tasks' = [tasks EXCEPT ![t].pc = "write_err"]
    /\ UNCHANGED <<st, call, nextId, httpVars, buf, log>>

\* a mutation of CheckoutPanic: the error is dropped and the handler replies
CheckoutPanic_swallowed(t) ==
    /\ tasks[t].pc = "write_err"
    /\ tasks' = [tasks EXCEPT ![t].pc = "done", ![t].status = 200]
    /\ UNCHANGED <<st, call, nextId, httpVars, lock, buf, log, poisoned>>

\* user_writer.write(record).unwrap() panics in the blocking task, and
\* blocking_task.await.unwrap() panics in the handler: no reply is sent
CheckoutPanic(t) ==
    /\ tasks[t].pc = "write_err"
    /\ tasks' = [tasks EXCEPT ![t].pc = "panicked"]
    /\ UNCHANGED <<st, call, nextId, httpVars, lock, buf, log, poisoned>>

\* how much of the buffer a failing write_all has written: nothing, or a part
\* of the first record
Prefixes == {0, 2}

\* the checkouts that reach the writer: "E", "c " and "zz" with the email "a@b"
FailureNext ==
    \/ \E cred \in CheckoutCredentials, consent \in BOOLEAN, now \in Times :
           Checkout(cred, [codes |-> << <<69>>, <<99, 32>>, <<122, 122>> >>,
                           email |-> <<97, 64, 98>>, consent |-> consent], now)
    \/ \E t \in 1..Len(tasks) : WriterLock(t)
    \/ \E t \in 1..Len(tasks) : WriterSerialize(t)
    \/ \E t \in 1..Len(tasks) : WriterFlush(t)
    \/ \E t \in 1..Len(tasks), k \in Prefixes : WriterFlushFails(t, k)
    \/ \E t \in 1..Len(tasks) : WriterUnlock(t)
    \/ \E t \in 1..Len(tasks) : WriterReturnErr(t)
    \/ \E t \in 1..Len(tasks) : CheckoutReply(t)
    \/ \E t \in 1..Len(tasks) : CheckoutPanic(t)

SpecFailure == CheckoutInit /\ [][FailureNext]_vars

\* ------------------------------------------------------------------------
\* SpecCodes: register_user on one code list, at the clock readings around the
\* windows of the codes
\* ------------------------------------------------------------------------

\* "c", "C ", "e", "K", "k" and "zz"
CodeStrings == {<<99>>, <<67, 32>>, <<101>>, <<75>>, <<107>>, <<122, 122>>}

\* the code lists a request body can hold
SubmittedLists == UNION {[1..n -> CodeStrings] : n \in 0..MaxCodes}

\* the clock readings of Utc::now(), from before the first window opens to
\* after the last one has closed
CodeTimes == 0..5

CodesInit ==
    /\ st \in {Some(s) : s \in CheckoutStates}
    /\ call \in {[op |-> "input", codes |-> l, email |-> <<97, 64, 98>>,
                   consent |-> c, now |-> n] :
                     l \in SubmittedLists, c \in BOOLEAN, n \in CodeTimes}
    /\ nextId = 2
    /\ HttpInit
    /\ WriterInit

\* register_user up to spawn_blocking
CodesRegister ==
    /\ call.op = "input"
    /\ call' = [op |-> "register_user", codes |-> call.codes, email |-> call.email,
                consent |-> call.consent, now |-> call.now,
                ret |-> register_user(call.codes, call.email, call.consent,
                                      st.val, call.now)]
    /\ UNCHANGED <<st, nextId, httpVars, writerVars>>

SpecCodes == CodesInit /\ [][CodesRegister]_vars

\* ------------------------------------------------------------------------
\* SpecAuth: the five routes behind the user_state filter, asked with no
\* credential, with an issued token, and with credentials the filter refuses
\* ------------------------------------------------------------------------

\* the credentials sent: none, the token under the documented scheme, under
\* another scheme and under none, and the token changed in each way
AuthCredentials ==
    {[scheme |-> "none"]}
        \cup {[scheme |-> k, token |-> Token(AuthState)] :
                  k \in {"userstate", "bearer", "missing"}}
        \cup {[scheme |-> d, token |-> Damaged(Token(AuthState), d)] : d \in Damages}

\* the clients hold the token of AuthState, issued to session 1
AuthInit ==
    /\ st = None
    /\ call = [op |-> "new"]
    /\ nextId = 2
    /\ jar = (Token(AuthState) :> [w \in wheel |-> 0])
    /\ draws = [i \in 1..NumIds, w \in wheel |-> 0]
    /\ resp = [op |-> "none"]
    /\ served = 0
    /\ WriterInit

\* one more request is made
Asked == served + Len(tasks) < MaxRequests

\* quiz "b", the answer "y", wheel "w" drawing its first choice, and the
\* checkout of no code for "a@b" at time 2: a session without points is
\* answered with 0 and nothing is written
AuthNext ==
    \/ \E cred \in AuthCredentials : Asked /\ GetQuiz(cred, <<98>>)
    \/ \E cred \in AuthCredentials : Asked /\ PostQuiz(cred, <<98>>, Yes)
    \/ \E cred \in AuthCredentials : Asked /\ PostWheel(cred, <<119>>, 1)
    \/ \E cred \in AuthCredentials : Asked /\ Stats(cred)
    \/ \E cred \in AuthCredentials :
           Asked /\ Checkout(cred, [codes |-> << >>, email |-> <<97, 64, 98>>,
                                    consent |-> TRUE], 2)

SpecAuth == AuthInit /\ [][AuthNext]_vars

\* ------------------------------------------------------------------------
\* SpecFrame: the operations that are given a UserState, register_user among
\* them, on one caller-held state
\* ------------------------------------------------------------------------

\* register_user(&codes, email, consent, &user_state) up to spawn_blocking
CtlRegister(submitted, now) ==
    /\ st.some
    /\ call' = [op |-> "register_user", codes |-> submitted, now |-> now,
                pre |-> st.val,
                ret |-> register_user(submitted, <<97, 64, 98>>, TRUE, st.val, now).points]
    /\ UNCHANGED <<st, nextId, httpVars, writerVars>>

\* the code lists are none and "c", the clock reads 1
FrameNext ==
    \/ CtlCreateUser
    \/ \E quiz_name \in QuizNames : CtlNextQuestion(quiz_name)
    \/ \E quiz_name \in QuizNames, answer \in AnswerStrings :
           CtlAnswerQuestion(quiz_name, answer)
    \/ \E wheel_name \in WheelNames, draw \in Draws : CtlSpinWheel(wheel_name, draw)
    \/ CtlPoints
    \/ \E submitted \in {<< >>, << <<99>> >>} : CtlRegister(submitted, 1)

SpecFrame == CtlInit /\ [][FrameNext]_vars

\* ------------------------------------------------------------------------
\* Claims
\* ------------------------------------------------------------------------

\* the token was presented as issued, or with its payload or signature changed
DecodeCalled == call.op = "decode_user"

\* C1: a token issued by encode_user whose payload part or signature part was
\* changed is refused by decode_user with an error; decode_user succeeds only
\* on a token whose tag is the HMAC of its payload under the server key, and
\* then returns the state that was encoded.
C1_TamperDetected ==
    DecodeCalled =>
        /\ call.ret \in {Ok(call.pre)} \cup {Err(e) : e \in {"bad base64",
               "bad authorization token", "invalid signature", "bad payload"}}
        /\ call.changed # "nothing" => ~call.ret.ok
        /\ call.ret.ok =>
               LET parts == SplitN2(call.token, 58)
               IN  /\ Len(parts) = 2
                   /\ Base64Decode(parts[2]) =
                          Ok(hmac_sign(secret_key, Base64Decode(parts[1]).val))

\* C1 witness: a token whose payload was changed to that of another issued
\* token has been presented and refused for its signature.
C1_Witness ==
    /\ DecodeCalled
    /\ call.changed = "payload"
    /\ call.pre = CodecState3
    /\ call.ret = Err("invalid signature")

\* a call that works on the caller's state: the state before it is call.pre
StateCall ==
    call.op \in {"next_question", "answer_question", "spin_wheel", "points",
                 "encode_user", "decode_user"}

\* the number of answers recorded for a quiz
AnswerCount(user_state, quiz_name) ==
    IF quiz_name \in DOMAIN user_state.answers
    THEN Len(user_state.answers[quiz_name])
    ELSE 0

\* s is t or t with entries appended
IsPrefix(s, t) == Len(s) <= Len(t) /\ SubSeq(t, 1, Len(s)) = s

\* C2: decode_user(encode_user(state)) succeeds and returns the state that was
\* encoded, for every state reached from create_user.
C2_RoundTrip ==
    (DecodeCalled /\ call.changed = "nothing") =>
        /\ call.token = encode_user(st.val)
        /\ call.ret.ok
        /\ call.ret.val.id = st.val.id
        /\ call.ret.val.answers = st.val.answers
        /\ call.ret.val.wheels = st.val.wheels

\* C2 witness: a state with answers to both quizzes and a spun wheel has made
\* the round trip.
C2_Witness ==
    /\ DecodeCalled
    /\ call.ret.ok
    /\ DOMAIN st.val.answers = {QuizA, QuizB}
    /\ AnswerCount(st.val, QuizA) = 4
    /\ WheelW \in DOMAIN st.val.wheels

\* C3: the number of answers recorded for a quiz never exceeds the quiz's
\* question count; an answer_question call that returns a result adds exactly
\* one answer to the named quiz, whatever the answer string; no operation removes
\* or rewrites a recorded answer.
C3_MonotonicProgress ==
    /\ st.some =>
           \A q \in DOMAIN st.val.answers :
               /\ q \in DOMAIN quiz
               /\ Len(st.val.answers[q]) <= Len(quiz[q].questions)
    /\ (call.op = "answer_question" /\ call.ret.some) =>
           AnswerCount(st.val, call.quiz_name) = AnswerCount(call.pre, call.quiz_name) + 1
    /\ StateCall =>
           \A q \in DOMAIN call.pre.answers :
               /\ q \in DOMAIN st.val.answers
               /\ IsPrefix(call.pre.answers[q], st.val.answers[q])

\* C3 witness: the last question of quiz "a" has just been answered, with a
\* string that is no answer of the question.
C3_Witness ==
    /\ call.op = "answer_question"
    /\ call.quiz_name = QuizA
    /\ call.answer = UpperYes
    /\ call.ret.some
    /\ AnswerCount(call.pre, QuizA) = 3
    /\ AnswerCount(st.val, QuizA) = 4

\* the quiz is not in the catalog, or every question of it is answered
UnknownOrComplete(quiz_name, user_state) ==
    \/ quiz_name \notin DOMAIN quiz
    \/ AnswerCount(user_state, quiz_name) = Len(quiz[quiz_name].questions)

\* C4: answer_question on a quiz that is unknown or complete returns none and
\* leaves the UserState as it was; no answers entry appears for an unknown name.
C4_AnswerNotFound ==
    (call.op = "answer_question" /\ UnknownOrComplete(call.quiz_name, call.pre)) =>
        /\ call.ret = None
        /\ st.val = call.pre
        /\ call.quiz_name \notin DOMAIN quiz => call.quiz_name \notin DOMAIN st.val.answers

\* C4 witness: answer_question has been called on quiz "b" with both of its
\* questions answered.
C4_Witness ==
    /\ call.op = "answer_question"
    /\ call.quiz_name = QuizB
    /\ AnswerCount(call.pre, QuizB) = 2
    /\ call.ret = None

\* C5: spin_wheel on a known wheel without an entry records a value of
\* {20, 40, 60} and returns it; on a wheel with an entry, and on an unknown
\* wheel, it returns none and records nothing; no operation changes a recorded
\* wheel value.
C5_WheelOncePerState ==
    /\ call.op = "spin_wheel" =>
           IF call.wheel_name \in wheel /\ call.wheel_name \notin DOMAIN call.pre.wheels
           THEN /\ call.ret.some
                /\ call.ret.val \in {20, 40, 60}
                /\ DOMAIN st.val.wheels = DOMAIN call.pre.wheels \cup {call.wheel_name}
                /\ st.val.wheels[call.wheel_name] = call.ret.val
                /\ st.val.answers = call.pre.answers
           ELSE /\ call.ret = None
                /\ st.val = call.pre
    /\ StateCall =>
           \A w \in DOMAIN call.pre.wheels :
               /\ w \in DOMAIN st.val.wheels
               /\ st.val.wheels[w] = call.pre.wheels[w]

\* C5 witness: a wheel that holds 60 has been spun again.
C5_Witness ==
    /\ call.op = "spin_wheel"
    /\ call.wheel_name = WheelW
    /\ WheelW \in DOMAIN call.pre.wheels
    /\ call.pre.wheels[WheelW] = 60
    /\ call.ret = None

\* C6 as stated: for a session id and a wheel, the wheel route returns a drawn
\* value at most once, whatever tokens issued for the session the client
\* presents, tokens from before the spin included
C6_OncePerSession == \A i \in 1..NumIds, w \in wheel : draws[i, w] <= 1

\* C6: along a chain of requests in which each request presents the token the
\* reply before it issued, the wheel route returns a drawn value for a wheel at
\* most once; every token a client holds has at most one draw behind it
C6_OncePerChain == \A t \in DOMAIN jar, w \in wheel : jar[t][w] <= 1

\* a token with a draw behind it was presented to the wheel again and got
\* NotFound
C6_Witness ==
    /\ resp.op = "post_wheel"
    /\ resp.path = WheelW
    /\ resp.scheme = "userstate"
    /\ resp.status = 404
    /\ \E t \in DOMAIN jar : jar[t][WheelW] = 1

\* the sum of the values of a map
RECURSIVE SumFn(_)
SumFn(f) ==
    IF DOMAIN f = {} THEN 0
    ELSE LET x == CHOOSE x \in DOMAIN f : TRUE
         IN  f[x] + SumFn([y \in DOMAIN f \ {x} |-> f[y]])

IsTrue(b) == b

\* the reference score: over the catalog's quizzes that the state has answers
\* for, floor(points * true answers / questions of the quiz); plus every wheel
\* value of the state
RefScore(user_state) ==
    SumFn([q \in DOMAIN quiz |->
              IF q \in DOMAIN user_state.answers
              THEN (quiz[q].points * Len(SelectSeq(user_state.answers[q], IsTrue)))
                       \div Len(quiz[q].questions)
              ELSE 0])
    + SumFn(user_state.wheels)

\* C7: points(state) is the reference score; quiz names that the catalog does
\* not have add nothing.  100 points and 4 questions: 3 correct of 4 answered
\* give 75, 2 correct of 2 answered give 50.
C7_PointsReference ==
    call.op = "points" =>
        /\ call.ret = RefScore(call.pre)
        /\ (/\ QuizA \in DOMAIN call.pre.answers
            /\ call.pre.answers[QuizA] \in {<<TRUE, TRUE, TRUE, FALSE>>, <<TRUE, FALSE, TRUE, TRUE>>}
            /\ QuizB \notin DOMAIN call.pre.answers
            /\ call.pre.wheels = << >>) => call.ret = 75
        /\ (/\ QuizA \in DOMAIN call.pre.answers
            /\ call.pre.answers[QuizA] = <<TRUE, TRUE>>
            /\ QuizB \notin DOMAIN call.pre.answers
            /\ call.pre.wheels = << >>) => call.ret = 50

\* C7 witness: points() has returned 75 for 3 correct answers of 4 to quiz "a"
\* and an answer to a quiz that the catalog does not have.
C7_Witness ==
    /\ call.op = "points"
    /\ call.pre.answers = (QuizA :> <<TRUE, TRUE, TRUE, FALSE>>) @@ (StaleQuiz :> <<TRUE>>)
    /\ call.pre.wheels = << >>
    /\ call.ret = 75

\* the cells of one record in the file
LineLen == Len(RecordFields) + 1

\* the number of whole records the file has room for
LineCount(file) == Len(file) \div LineLen

\* the k-th record of the file
LineAt(file, k) == SubSeq(file, (k - 1) * LineLen + 1, k * LineLen)

\* the tasks whose write has been flushed and whose register call has not
\* returned yet; the checkout requests answered with positive points
FlushedTasks == {t \in 1..Len(tasks) : tasks[t].pc \in {"flushed", "written"}}

CompletedTasks ==
    {t \in 1..Len(tasks) : tasks[t].pc = "done" /\ tasks[t].status = 200
                               /\ tasks[t].points > 0}

\* the points of the catalog codes that the distinct submitted strings name,
\* trimmed and lower-cased, and whose window holds now
CodePoints(submitted, now) ==
    SumFn([s \in {submitted[k] : k \in 1..Len(submitted)} |->
              IF /\ to_lowercase(trim(s)) \in DOMAIN codes
                 /\ codes[to_lowercase(trim(s))].valid_from <= now
                 /\ now <= codes[to_lowercase(trim(s))].valid_to
              THEN codes[to_lowercase(trim(s))].points
              ELSE 0])

\* total_points = points(state) + the matched codes' points, for the sessions,
\* code lists and times of the checkout requests
RegisterInputs ==
    (CheckoutStates \cup {create_user(UserId(i)) : i \in 1..NumIds}) \X CodeLists \X Times

TotalPointsOf ==
    [x \in RegisterInputs |-> points(x[1]) + CodePoints(x[2], x[3])] @@ << >>

\* total_points of the register call of task t
TotalPoints(t) == TotalPointsOf[<<tasks[t].session.val, tasks[t].codes, tasks[t].now>>]

\* what C8 says of the register call of task t, whose total_points is total
RecordIffPositive(t, total) ==
    /\ tasks[t].points = total
    /\ tasks[t].record.some <=> total > 0
    /\ total = 0 => tasks[t].pc = "done" /\ tasks[t].status = 200
    /\ (tasks[t].pc = "done" /\ total > 0) =>
           /\ tasks[t].status = 200
           /\ \E k \in 1..LineCount(log) : LineAt(log, k) = Line(tasks[t].record.val)

\* C8: a register call hands a record to the writer exactly when total_points
\* = points(state) + the matched codes' points is positive, and then the record
\* is in the log when the call has returned; with total_points 0 the call
\* returns without touching the writer, and no record of the log has 0 points.
\* The call returns total_points in both cases.
C8_RecordIffPositive ==
    /\ \A t \in 1..Len(tasks) :
           tasks[t].session.some => RecordIffPositive(t, TotalPoints(t))
    /\ \A k \in 1..LineCount(log) :
           /\ LineAt(log, k)[3].value > 0
           /\ \E t \in 1..Len(tasks) :
                  /\ tasks[t].record.some
                  /\ LineAt(log, k) = Line(tasks[t].record.val)

\* a redemption with no points and one with total_points 1 for code "c" have
\* been answered, and the log holds one record
C8_Witness ==
    /\ \E t \in 1..Len(tasks) :
           /\ tasks[t].pc = "done" /\ tasks[t].status = 200
           /\ tasks[t].session.some /\ tasks[t].points = 0
    /\ \E t \in 1..Len(tasks) :
           /\ tasks[t].pc = "done" /\ tasks[t].status = 200
           /\ tasks[t].points = 1
           /\ tasks[t].record.some /\ tasks[t].record.val.codes = <<99>>
    /\ LineCount(log) = 1

\* C9: the log holds one record per register call with positive total_points
\* that has completed (or whose write has been flushed), and for every session
\* id as many records with that id as such calls were made with it: a second
\* call with the same state appends a second record with the same id.
C9_NoDedup ==
    /\ LineCount(log) = Cardinality(CompletedTasks) + Cardinality(FlushedTasks)
    /\ \A t \in CompletedTasks \cup FlushedTasks :
           Cardinality({k \in 1..LineCount(log) :
                           LineAt(log, k)[1].value = tasks[t].record.val.id})
             = Cardinality({u \in CompletedTasks \cup FlushedTasks :
                               tasks[u].session.val.id = tasks[t].session.val.id})

\* register was called twice with the same state and positive total_points,
\* both calls have returned, and the log holds two records with the same id
C9_Witness ==
    /\ \E t, u \in CompletedTasks :
           /\ t # u
           /\ tasks[t].session = tasks[u].session
           /\ tasks[t].codes = tasks[u].codes
    /\ LineCount(log) = 2
    /\ LineAt(log, 1)[1] = LineAt(log, 2)[1]

\* the tasks inside UserWriter::write after the lock was taken
InWriter(t) == tasks[t].pc \in {"locked", "serialized", "flushed"}

\* C10: at most one task is between taking the writer's lock and releasing it,
\* and it is the holder of the lock; when the lock is free the writer's buffer
\* is empty, so every record was flushed before its lock was released; and the
\* log is a sequence of whole records, each the record of a task, each flushed
\* record there exactly as many times as it was written.
C10_Serialized ==
    /\ \A t, u \in 1..Len(tasks) : (InWriter(t) /\ InWriter(u)) => t = u
    /\ \A t \in 1..Len(tasks) : InWriter(t) => lock = t
    /\ lock = 0 => buf = << >>
    /\ Len(log) % LineLen = 0
    /\ \A k \in 1..LineCount(log) :
           \E t \in 1..Len(tasks) :
               tasks[t].record.some /\ LineAt(log, k) = Line(tasks[t].record.val)
    /\ \A t \in 1..Len(tasks) :
           tasks[t].pc \in {"flushed", "written", "done"} /\ tasks[t].record.some =>
               Cardinality({k \in 1..LineCount(log) :
                               LineAt(log, k) = Line(tasks[t].record.val)})
                 = Cardinality({u \in 1..Len(tasks) :
                                   /\ tasks[u].pc \in {"flushed", "written", "done"}
                                   /\ tasks[u].record = tasks[t].record})

\* one task is part-way through serializing its record, which is in the
\* writer's buffer, while another task waits for the lock
C10_Witness ==
    /\ \E t, u \in 1..Len(tasks) :
           /\ tasks[t].pc = "locked" /\ tasks[t].written > 0
           /\ tasks[u].pc = "spawned"
    /\ buf # << >>


\* the tasks whose write returned an error
FailedTasks == {t \in 1..Len(tasks) : tasks[t].pc \in {"write_err", "panicked"}}

WriteFailed(t) == tasks[t].pc \in {"flush_err", "write_err", "panicked"}

\* C12: a failed append is fatal for its request only: from the failure on the
\* request has no reply and never gets one, its task has called flush once and
\* never calls it again, and no later step reports it as a redemption.
C12_FailureIsFatal ==
    [][\A t \in 1..Len(tasks) :
          WriteFailed(t) =>
              /\ tasks[t].status = 0 /\ tasks[t].flushes = 1
              /\ tasks'[t].pc \in {"flush_err", "write_err", "panicked"}
              /\ tasks'[t].status = 0 /\ tasks'[t].flushes = 1]_vars

\* a redemption with a positive total ended without a reply after its flush
\* failed, and another one was answered with its points
C12_Witness ==
    \E t \in 1..Len(tasks), u \in 1..Len(tasks) :
        /\ tasks[t].pc = "panicked" /\ tasks[t].status = 0
        /\ tasks[t].points > 0 /\ tasks[t].flushes = 1
        /\ tasks[u].pc = "done" /\ tasks[u].status = 200 /\ tasks[u].points > 0


\* register_user has been applied to a code list
RegisterCalled == call.op = "register_user"

\* the distinct strings of a code list
Strings(submitted) == {submitted[k] : k \in 1..Len(submitted)}

\* the submitted strings that are found in the catalog, by the lookup of
\* register_user, with a window that holds now
Contributing(submitted, now) ==
    {s \in Strings(submitted) :
        /\ CodeFound(s)
        /\ codes[to_lowercase(trim(s))].valid_from <= now
        /\ now <= codes[to_lowercase(trim(s))].valid_to}

\* the names of the codes that a set of strings is found as, sorted and joined
NamesOf(strings) ==
    Join(SortSeq([i \in 1..Cardinality(strings) |->
                     codes[to_lowercase(trim(SortedKeys(strings)[i]))].code], StrLess))

\* C13: a submitted string contributes the points and the name of its code
\* exactly when it is found in the catalog and valid_from <= now <= valid_to,
\* both ends included; the other strings contribute nothing, and register_user
\* returns its total whatever the list holds.
C13_ValidityWindow ==
    RegisterCalled =>
        /\ call.ret.points
              = points(st.val)
                  + SumFn([s \in Contributing(call.codes, call.now) |->
                              codes[to_lowercase(trim(s))].points])
        /\ call.ret.record.some =>
               call.ret.record.val.codes = NamesOf(Contributing(call.codes, call.now))

\* "c", whose window is 1..2, redeemed at 2 with a string that is not a code
C13_Witness ==
    /\ RegisterCalled
    /\ call.codes = << <<99>>, <<122, 122>> >>
    /\ call.now = 2
    /\ call.ret.points = points(st.val) + 1
    /\ call.ret.record.some /\ call.ret.record.val.codes = <<99>>


\* the points of the catalog codes whose configured string, lower-cased, is the
\* trimmed and lower-cased string s, and whose window holds now
MatchedPoints(s, now) ==
    SumFn([i \in {j \in 1..Len(ConfigCode) :
                     /\ to_lowercase(trim(s)) = to_lowercase(ConfigCode[j].code)
                     /\ ConfigCode[j].valid_from <= now
                     /\ now <= ConfigCode[j].valid_to} |-> ConfigCode[i].points])

\* C14: code matching is case- and whitespace-insensitive: a submitted string s
\* matches the catalog code C, whatever the letter case of C's configured
\* string, exactly when trim(lowercase(s)) = lowercase(C.code); so a call with
\* the one string s, made within the windows, returns the points of the state
\* plus the points of the codes so matched.
C14_CaseInsensitive ==
    (RegisterCalled /\ Len(call.codes) = 1) =>
        call.ret.points = points(st.val) + MatchedPoints(call.codes[1], call.now)


\* the credentials that the filter must refuse: another scheme word, no scheme
\* word, and the token changed in each way
Refused == {"bearer", "missing"} \cup Damages

\* the step at which decode_user gives up on each changed token
DamageCauses ==
    [d \in Damages |-> decode_user(Damaged(Token(AuthState), d))]

\* a step that serves a request with a refused credential answers it with the
\* rejection alone and changes nothing else
RefusedStep ==
    /\ (served' # served /\ resp'.scheme \in Refused) =>
           /\ resp' = [op |-> resp'.op, path |-> resp'.path,
                       scheme |-> resp'.scheme, status |-> 401]
           /\ UNCHANGED <<jar, draws, nextId, writerVars>>
    /\ (Len(tasks') # Len(tasks) /\ tasks'[Len(tasks')].scheme \in Refused) =>
           /\ tasks'[Len(tasks')] = Ended(401, tasks'[Len(tasks')].scheme)
           /\ UNCHANGED <<jar, draws, nextId, resp, lock, buf, log, poisoned>>

\* C15: authentication failures do not distinguish their cause: a request whose
\* credential has no ':' part, bad base64 in either part, a wrong tag, a valid
\* tag over an unreadable payload, a wrong scheme word or none is answered with
\* the one Unauthorized outcome, which carries nothing but the rejection, and
\* the request runs no quiz, wheel, stats or checkout operation: no token is
\* issued, no draw made, no task reaches register_user and nothing is written.
C15_UniformRejection == [][RefusedStep]_vars

\* decode_user gives up on the five changed tokens at four different steps;
\* a stats request with the unreadable payload and checkouts with the wrong tag
\* and with the wrong scheme word have all been refused in the same way
C15_Witness ==
    /\ DamageCauses["no_colon"] = Err("bad authorization token")
    /\ DamageCauses["bad_payload"] = Err("bad base64")
    /\ DamageCauses["bad_signature"] = Err("bad base64")
    /\ DamageCauses["tag_mismatch"] = Err("invalid signature")
    /\ DamageCauses["unreadable"] = Err("bad payload")
    /\ resp = [op |-> "stats", path |-> << >>, scheme |-> "unreadable", status |-> 401]
    /\ Len(tasks) = 2
    /\ tasks[1] = Ended(401, "tag_mismatch")
    /\ tasks[2] = Ended(401, "bearer")


\* the reply r is what its route gives for the session user_state and the
\* inputs of SpecAuth
RanOn(r, user_state) ==
    /\ r.status = 200
    /\ CASE r.op = "get_quiz" -> r.session = user_state
          [] r.op = "post_quiz" ->
                 r.session = answer_question(r.path, user_state, Yes).state
          [] r.op = "post_wheel" -> r.session = spin_wheel(r.path, user_state, 1).state
          [] r.op = "stats" ->
                 r.session = user_state /\ r.total_points = points(user_state)

\* a step that serves a request runs it on a new session exactly when the
\* request has no credential, and otherwise on the state of its token or not
\* at all
SessionStep ==
    /\ (served' # served /\ resp'.scheme = "none") =>
           /\ nextId' = nextId + 1
           /\ RanOn(resp', [id |-> UserId(nextId), answers |-> << >>, wheels |-> << >>])
    /\ (served' # served /\ resp'.scheme # "none") =>
           /\ nextId' = nextId
           /\ \/ resp'.status = 401
              \/ resp'.scheme = "userstate" /\ RanOn(resp', AuthState)
    /\ (Len(tasks') # Len(tasks) /\ tasks'[Len(tasks')].scheme = "none") =>
           /\ nextId' = nextId + 1
           /\ tasks'[Len(tasks')].session
                 = Some([id |-> UserId(nextId), answers |-> << >>, wheels |-> << >>])
    /\ (Len(tasks') # Len(tasks) /\ tasks'[Len(tasks')].scheme # "none") =>
           /\ nextId' = nextId
           /\ \/ tasks'[Len(tasks')].status = 401 /\ tasks'[Len(tasks')].session = None
              \/ /\ tasks'[Len(tasks')].scheme = "userstate"
                 /\ tasks'[Len(tasks')].session = Some(AuthState)

\* C16: a request without a credential is not an error: its operation runs on
\* a UserState just created, with a new id and empty answers and wheels. A
\* request that presents a credential never falls back to a new session: it
\* runs on exactly the state carried by its validly signed token, or it is
\* rejected.
C16_SessionOrigin == [][SessionStep]_vars

\* POST /quiz/b without credential was answered from a new session with id 2,
\* after a checkout with the issued token ran on the token's state and a
\* checkout with a token cut at the ':' was rejected
C16_Witness ==
    /\ resp.op = "post_quiz" /\ resp.scheme = "none" /\ resp.status = 200
    /\ resp.session = [id |-> UserId(2), answers |-> (<<98>> :> <<TRUE>>),
                       wheels |-> << >>]
    /\ Len(tasks) = 2
    /\ tasks[1].scheme = "userstate" /\ tasks[1].session = Some(AuthState)
    /\ tasks[1].status = 200
    /\ tasks[2] = Ended(401, "no_colon")


\* the session a request of SpecAuth runs on, by its credential alone: a new
\* one with the id drawn, the one of the token, or none
SessionOf(scheme, id) ==
    IF scheme = "none" THEN Ok(create_user(id))
    ELSE IF scheme = "userstate" THEN Ok(AuthState)
    ELSE Unauthorized

\* the reply of a quiz, wheel or stats route of SpecAuth, computed from the
\* request (route, path, credential), the catalog, the draw and the id drawn,
\* and from nothing that the server holds
Outcome(op, path, scheme, user_state) ==
    IF ~user_state.ok
    THEN [op |-> op, path |-> path, scheme |-> scheme, status |-> 401]
    ELSE CASE op = "get_quiz" ->
                  [op |-> op, path |-> path, scheme |-> scheme, status |-> 200,
                   question |-> next_question(path, user_state.val).val.question,
                   session |-> user_state.val]
           [] op = "post_quiz" ->
                  [op |-> op, path |-> path, scheme |-> scheme, status |-> 200,
                   is_correct |-> answer_question(path, user_state.val, Yes).ret.val[1],
                   session |-> answer_question(path, user_state.val, Yes).state]
           [] op = "post_wheel" ->
                  [op |-> op, path |-> path, scheme |-> scheme, status |-> 200,
                   points |-> spin_wheel(path, user_state.val, 1).ret.val,
                   session |-> spin_wheel(path, user_state.val, 1).state]
           [] op = "stats" ->
                  [op |-> op, path |-> path, scheme |-> scheme, status |-> 200,
                   total_points |-> points(user_state.val),
                   session |-> user_state.val]

\* the same for POST /checkout of SpecAuth (no code, "a@b", time 2)
CheckoutOutcome(scheme, user_state) ==
    IF ~user_state.ok THEN Ended(401, scheme)
    ELSE [pc |-> "done", status |-> 200, scheme |-> scheme,
          session |-> Some(user_state.val), codes |-> << >>,
          email |-> <<97, 64, 98>>, now |-> 2, points |-> points(user_state.val),
          record |-> None, written |-> 0, flushes |-> 0]

\* a step that serves a request gives it the outcome of its own inputs, and
\* leaves the outcomes of the other requests as they were
StatelessStep ==
    /\ served' # served =>
           resp' = Outcome(resp'.op, resp'.path, resp'.scheme,
                           SessionOf(resp'.scheme, UserId(nextId)))
    /\ Len(tasks') # Len(tasks) =>
           tasks'[Len(tasks')]
             = CheckoutOutcome(tasks'[Len(tasks')].scheme,
                               SessionOf(tasks'[Len(tasks')].scheme, UserId(nextId)))
    /\ \A t \in 1..Len(tasks) : tasks'[t] = tasks[t]

\* C17: the server is session-stateless: the outcome of a quiz, wheel, stats or
\* checkout request is a function of the token and body it presents, the
\* catalog, the random draw (of the wheel, of a new id) and the clock; whatever
\* requests were served before it or between, the request gets that outcome.
C17_Stateless == [][StatelessStep]_vars

\* the issued token was presented to POST /wheel/w twice, between them a
\* request of another session, and the second request drew like the first
C17_Witness ==
    /\ served = 3
    /\ draws[1, <<119>>] = 2
    /\ nextId = 3
    /\ resp = Outcome("post_wheel", <<119>>, "userstate", Ok(AuthState))


\* the file holds the line somewhere (after a failed write the records of the
\* file need not start at multiples of the line length)
Holds(file, line) ==
    \E i \in 0..(Len(file) - Len(line)) : SubSeq(file, i + 1, i + Len(line)) = line

\* C18: register_user returns, and the checkout is answered, only after the
\* record has been appended and flushed: whenever the write of a task has
\* returned Ok or a checkout with total_points > 0 has been answered with its
\* points, the whole record of that call is in users.csv.
C18_RepliedAfterFlush ==
    \A t \in 1..Len(tasks) :
        (/\ tasks[t].record.some
         /\ \/ tasks[t].pc = "written"
            \/ tasks[t].status = 200) =>
            /\ tasks[t].flushes = 1
            /\ Holds(log, Line(tasks[t].record.val))

\* a checkout was answered with its points after an earlier one had failed in
\* its flush with a part of its record written; the record of the answered
\* one is in the file, after the part and the whole of the failed one
C18_Witness ==
    \E t \in 1..Len(tasks), u \in 1..Len(tasks) :
        /\ tasks[t].pc = "panicked"
        /\ tasks[u].pc = "done" /\ tasks[u].status = 200 /\ tasks[u].points > 0
        /\ log = SubSeq(Line(tasks[t].record.val), 1, 2)
                    \o Line(tasks[t].record.val) \o Line(tasks[u].record.val)


\* the names of the fields of a line of the file, in order
FieldNames(line) == [i \in 1..(Len(line) - 1) |-> line[i].field]

\* C19: the record appended by register_user has, in this order, the fields
\* id, email, points, codes, consent, timestamp: id is the hex of the UserId,
\* points the total that register_user returns, codes the names of exactly the
\* matched codes, sorted and joined by single spaces, and consent the flag
\* passed by the caller.
C19_RecordFields ==
    (RegisterCalled /\ call.ret.record.some) =>
        /\ FieldNames(Line(call.ret.record.val))
              = <<"id", "email", "points", "codes", "consent", "time">>
        /\ Line(call.ret.record.val)[1].value = HexEncode(st.val.id)
        /\ Line(call.ret.record.val)[2].value = call.email
        /\ Line(call.ret.record.val)[3].value = call.ret.points
        /\ Line(call.ret.record.val)[4].value
              = NamesOf(Contributing(call.codes, call.now))
        /\ Line(call.ret.record.val)[5].value = call.consent
        /\ Line(call.ret.record.val)[6].value = call.now


\* the names of the catalog codes that the strings of a list are found as, with
\* a window that holds now: each code once, however many strings name it
MatchedCodes(submitted, now) ==
    {to_lowercase(trim(s)) : s \in Contributing(submitted, now)}

\* C20: in one register call each catalog code is counted at most once: for
\* any list of submitted strings, several distinct strings that normalize to
\* the same code among them, the points of that code are added at most once
\* and its name stands at most once in the codes field.
C20_CodeCountedOnce ==
    RegisterCalled =>
        /\ call.ret.points
              <= points(st.val)
                   + SumFn([c \in MatchedCodes(call.codes, call.now) |-> codes[c].points])
        /\ call.ret.record.some =>
               Len(call.ret.record.val.codes)
                 <= Len(Join(SortedKeys({codes[c].code :
                                           c \in MatchedCodes(call.codes, call.now)})))


\* f and g are the same map but for the entry of key k, which g has
SameBut(f, g, k) ==
    /\ DOMAIN g = DOMAIN f \cup {k}
    /\ \A x \in DOMAIN f \ {k} : g[x] = f[x]

\* C21: the frame of the operations on a UserState: no operation changes the
\* id that create_user gave; an answer_question that returns a result changes
\* answers[quiz_name] alone, the answers of the other quizzes and all wheels
\* stay; a spin_wheel that returns a value changes wheels[wheel_name] alone,
\* the answers and the other wheels stay; next_question, points and
\* register_user leave the whole state as it was.
C21_Frame ==
    /\ call.op \in {"next_question", "answer_question", "spin_wheel", "points",
                     "register_user"} => st.val.id = call.pre.id
    /\ (call.op = "answer_question" /\ call.ret.some) =>
           /\ st.val.wheels = call.pre.wheels
           /\ SameBut(call.pre.answers, st.val.answers, call.quiz_name)
    /\ (call.op = "spin_wheel" /\ call.ret.some) =>
           /\ st.val.answers = call.pre.answers
           /\ SameBut(call.pre.wheels, st.val.wheels, call.wheel_name)
    /\ call.op \in {"next_question", "points", "register_user"} => st.val = call.pre

\* the wheel has just been drawn by a session with answers to both quizzes,
\* which it still has
C21_Witness ==
    /\ call.op = "spin_wheel" /\ call.ret.some
    /\ DOMAIN call.pre.answers = {QuizA, QuizB}
    /\ call.pre.wheels = << >>
    /\ st.val.answers = call.pre.answers
    /\ DOMAIN st.val.wheels = {WheelW}

=============================================================================
